---- MODULE Spec2Model ----
(***************************************************************************)
(* A model of pptparse/utils.py: the group-shape geometry normaliser, the  *)
(* image extraction with its retried converter, the run-directory Config,  *)
(* the field-wise dict_to_object, runs_merge, and the parse/save round     *)
(* trip of the quickstart.  Each unit has its own specification; the       *)
(* variables of the other units stay at their idle values.                 *)
(***************************************************************************)
EXTENDS Integers, Sequences, FiniteSets, TLC

VARIABLES
    \* parse_groupshape
    groupshape,      \* the GroupShape argument: its frame and its child shapes
    group_shape_xy,  \* the list parse_groupshape returns
    gerror,          \* the exception parse_groupshape ends in, "none" if it returns
    gpc,             \* "ready" before the call, "done" after it
    \* parsing_image and wmf_to_images
    files,           \* the image directory: path -> what the file holds
    nwrites,         \* path -> how many times the file was created or written
    ipc,             \* "idle", "wmf_to_images" (an attempt is due) or "wait"
    image,           \* the image argument of the current or last call
    image_path,      \* parsing_image's local image_path
    attempt_number,  \* tenacity's attempt counter of the current call
    slept,           \* seconds the current call has waited between attempts
    outcomes,        \* how each attempt of the current call ended
    history,         \* one record per completed parsing_image call
    \* Config
    cpc,             \* "none" before a Config is constructed, "live" after
    RUN_DIR,         \* Config.RUN_DIR, a path
    IMAGE_DIR,       \* Config.IMAGE_DIR, a path
    session_id,      \* Config.session_id
    DEBUG,           \* Config.DEBUG
    dirs,            \* the directories that exist on disk
    cop,             \* the Config operation called last
    cerror,          \* the exception it raised, "none" if it returned
    \* dict_to_object
    obj,             \* the object: attribute name -> value
    applied,         \* the dict_to_object calls made, with the object after each
    \* runs_merge
    paragraph,       \* the paragraph's content children before the call
    paragraph_after, \* its content children after the call
    merged,          \* what runs_merge returned
    rpc,             \* "ready" before the call, "done" after it
    \* the quickstart's round trip
    document,        \* the source document: slides of raw shapes
    prs,             \* Presentation.from_file(document)
    prs_attrs,       \* asdict(deepcopy(prs))
    restored,        \* from_dict(Presentation, prs_attrs)
    output,          \* the document save(layout_only=True) writes
    reloaded,        \* what loading the output yields: its slides' shapes
    tpc              \* the position in the round trip

gvars == <<groupshape, group_shape_xy, gerror, gpc>>

ivars == <<files, nwrites, ipc, image, image_path, attempt_number, slept,
           outcomes, history>>

cvars == <<cpc, RUN_DIR, IMAGE_DIR, session_id, DEBUG, dirs, cop, cerror>>

svars == <<obj, applied>>

rvars == <<paragraph, paragraph_after, merged, rpc>>

tvars == <<document, prs, prs_attrs, restored, output, reloaded, tpc>>

vars == <<gvars, ivars, cvars, svars, rvars, tvars>>

\* What a unit's actions leave alone: the variables of the other units.
grest == <<ivars, cvars, svars, rvars, tvars>>
irest == <<gvars, cvars, svars, rvars, tvars>>
crest == <<gvars, ivars, svars, rvars, tvars>>
srest == <<gvars, ivars, cvars, rvars, tvars>>
rrest == <<gvars, ivars, cvars, svars, tvars>>
trest == <<gvars, ivars, cvars, svars, rvars>>

(***************************************************************************)
(* parse_groupshape (utils.py 237-289)                                     *)
(***************************************************************************)

\* Most child shapes of a group in the model.
MaxChildren == 2

\* Local boxes of child shapes (EMU); pptx extents are never negative.
ChildBoxes ==
    [left : {-30, 0, 100}, top : {0, 20}, width : {0, 100}, height : {0, 50}]

\* Frames a group shape can declare on the slide.
GroupFrames ==
    [left : {-15, 10}, top : {10}, width : {7, 400}, height : {100}]

\* The child lists of at most n shapes, and the groups that hold them.
ShapeLists(n) == UNION {[1..k -> ChildBoxes] : k \in 0..n}

GroupShapes(n) ==
    {[left |-> f.left, top |-> f.top, width |-> f.width, height |-> f.height,
      shapes |-> s] : f \in GroupFrames, s \in ShapeLists(n)}

Min(S) == CHOOSE x \in S : \A y \in S : x <= y
Max(S) == CHOOSE x \in S : \A y \in S : x >= y

\* Length(x) of a float x = num/den: int.__new__ truncates toward zero.
Length(num, den) ==
    LET n == IF den < 0 THEN -num ELSE num
        d == IF den < 0 THEN -den ELSE den
    IN  IF n >= 0 THEN n \div d ELSE -((-n) \div d)

\* Mutant: the first child's left instead of the least left.
shape_top_left_x_first(g) == g.shapes[1].left

shape_top_left_x(g) == Min({g.shapes[i].left : i \in DOMAIN g.shapes})
shape_top_left_y(g) == Min({g.shapes[i].top : i \in DOMAIN g.shapes})

\* Mutant: the group's declared width instead of the children's extent.
shape_width_declared(g) == g.width

shape_width(g) ==
    Max({g.shapes[i].left + g.shapes[i].width : i \in DOMAIN g.shapes})
        - shape_top_left_x(g)
shape_height(g) ==
    Max({g.shapes[i].top + g.shapes[i].height : i \in DOMAIN g.shapes})
        - shape_top_left_y(g)

\* The dict appended for child sp; the divisors are nonzero here.
group_shape_bounds(g, sp) ==
    [left   |-> Length((sp.left - shape_top_left_x(g)) * g.width
                          + g.left * shape_width(g), shape_width(g)),
     top    |-> Length((sp.top - shape_top_left_y(g)) * g.height
                          + g.top * shape_height(g), shape_height(g)),
     width  |-> Length(sp.width * g.width, shape_width(g)),
     height |-> Length(sp.height * g.height, shape_height(g))]

\* How the call ends: min([]) raises ValueError; the first child's division
\* by a zero shape_width or shape_height raises ZeroDivisionError.
parse_groupshape_error(g) ==
    IF Len(g.shapes) = 0 THEN "ValueError"
    ELSE IF shape_width(g) = 0 \/ shape_height(g) = 0 THEN "ZeroDivisionError"
    ELSE "none"

parse_groupshape(g) ==
    IF parse_groupshape_error(g) # "none" THEN <<>>
    ELSE [i \in DOMAIN g.shapes |-> group_shape_bounds(g, g.shapes[i])]

GStart ==
    /\ groupshape \in GroupShapes(MaxChildren)
    /\ group_shape_xy = <<>>
    /\ gerror = "none"
    /\ gpc = "ready"

ParseGroupshape ==
    /\ gpc = "ready"
    /\ group_shape_xy' = parse_groupshape(groupshape)
    /\ gerror' = parse_groupshape_error(groupshape)
    /\ gpc' = "done"
    /\ UNCHANGED <<groupshape, grest>>

GNext == ParseGroupshape

(***************************************************************************)
(* parsing_image and wmf_to_images (utils.py 168-177, 197-234)             *)
(***************************************************************************)

\* Most parsing_image calls in a run of the model.
MaxCalls == 3

IMAGE_EXTENSIONS ==
    {"bmp", "jpg", "jpeg", "pgm", "png", "ppm", "tif", "tiff", "webp"}

\* tenacity_decorator's defaults: wait_fixed(wait), stop_after_attempt(stop).
wait == 3
stop == 5

\* A path is its pieces in order; ".wmf" occurs in it only as a whole piece.
\* Images: ext is image.ext, path the image_path argument, blob image.blob.
Images ==
    { [ext |-> "wmf", path |-> <<"a", ".wmf">>, blob |-> "blob1"],
      [ext |-> "jpg", path |-> <<"a", ".jpg">>, blob |-> "blob2"],
      [ext |-> "png", path |-> <<"b", ".png">>, blob |-> "blob3"],
      [ext |-> "emf", path |-> <<"c", ".emf">>, blob |-> "blob4"],
      [ext |-> "wmf", path |-> <<"d", ".WMF">>, blob |-> "blob5"] }

NoImage == [ext |-> "", path |-> <<>>, blob |-> ""]

\* str.replace(".wmf", ".jpg"): every occurrence is replaced.
replace_wmf_jpg(path) ==
    [k \in DOMAIN path |-> IF path[k] = ".wmf" THEN ".jpg" ELSE path[k]]

Paths == {i.path : i \in Images} \cup {replace_wmf_jpg(i.path) : i \in Images}

Absent == [kind |-> "absent", blob |-> ""]

pexists(fs, path) == fs[path] # Absent

endswith_jpg(path) == Len(path) > 0 /\ path[Len(path)] = ".jpg"

\* file.split(".")[-1].lower() for the last pieces the model's paths end in.
extension(path) ==
    LET last == IF Len(path) = 0 THEN "" ELSE path[Len(path)]
    IN  CASE last = ".jpg" -> "jpg"
          [] last = ".png" -> "png"
          [] last = ".emf" -> "emf"
          [] last \in {".wmf", ".WMF"} -> "wmf"
          [] OTHER -> ""

is_image_path(file) == extension(file) \in IMAGE_EXTENSIONS

\* Mutant: every encoding passes the check of line 204.
is_supported_any(ext) == TRUE

\* Line 204: image.ext in IMAGE_EXTENSIONS.
is_supported(ext) == ext \in IMAGE_EXTENSIONS

\* Mutant: the file is written whether or not it exists.
must_save_always(fs, path) == TRUE

\* Line 208: the image is saved only if no file is there.
must_save(fs, path) == ~pexists(fs, path)

\* Mutant: one attempt too many.
stop_after_attempt_late(n) == n > stop

\* stop_after_attempt(stop): no retry once this many attempts were made.
stop_after_attempt(n) == n >= stop

\* The attempts that ran soffice: a filepath not ending in .jpg raises first.
conversions(outs) ==
    Cardinality({k \in DOMAIN outs : outs[k] # "ValueError"})

\* The call's record once it ends.
call_record(img, kind, value, err, wrote, outs) ==
    [image |-> img, kind |-> kind, value |-> value, error |-> err,
     wrote |-> wrote,
     attempts |-> Len(outs), conversions |-> conversions(outs)]

\* Lines 207-211, with fs the directory as the lines above left it.
save_and_return(img, path, fs, nw, outs) ==
    /\ IF must_save(fs, path)
       THEN /\ files' = [fs EXCEPT ![path] = [kind |-> "raw", blob |-> img.blob]]
            /\ nwrites' = [nw EXCEPT ![path] = @ + 1]
       ELSE /\ files' = fs
            /\ nwrites' = nw
    /\ history' = Append(history,
                         call_record(img, "returned", path, "", must_save(fs, path),
                                     outs))
    /\ ipc' = "idle"

raise(img, err, outs) ==
    /\ history' = Append(history, call_record(img, "raised", <<>>, err, FALSE, outs))
    /\ ipc' = "idle"

IStart ==
    /\ files = [q \in Paths |-> Absent]
    /\ nwrites = [q \in Paths |-> 0]
    /\ ipc = "idle"
    /\ image = NoImage
    /\ image_path = <<>>
    /\ attempt_number = 0
    /\ slept = 0
    /\ outcomes = <<>>
    /\ history = <<>>

\* parsing_image(img, img.path) up to its return, its raise, or its call of
\* wmf_to_images.
ParsingImage(img) ==
    /\ ipc = "idle"
    /\ Len(history) < MaxCalls
    /\ UNCHANGED irest
    /\ image' = img
    /\ outcomes' = <<>>
    /\ slept' = 0
    /\ IF img.ext = "wmf"
       THEN /\ image_path' = replace_wmf_jpg(img.path)
            /\ IF ~pexists(files, image_path')
               THEN /\ ipc' = "wmf_to_images"
                    /\ attempt_number' = 1
                    /\ UNCHANGED <<files, nwrites, history>>
               ELSE /\ attempt_number' = 0
                    /\ save_and_return(img, image_path', files, nwrites, <<>>)
       ELSE /\ image_path' = img.path
            /\ attempt_number' = 0
            /\ IF ~is_supported(img.ext)
               THEN /\ raise(img, "ValueError", <<>>)
                    /\ UNCHANGED <<files, nwrites>>
               ELSE save_and_return(img, image_path', files, nwrites, <<>>)

\* After a failed attempt tenacity stops with RetryError or waits.
retry_or_stop(outs) ==
    /\ outcomes' = outs
    /\ UNCHANGED <<files, nwrites, attempt_number>>
    /\ IF stop_after_attempt(attempt_number)
       THEN raise(image, "RetryError", outs)
       ELSE /\ ipc' = "wait"
            /\ UNCHANGED history

\* One attempt of wmf_to_images: soffice converts the blob (the .jpg appears
\* in the directory), exits nonzero (CalledProcessError), or exits zero and
\* leaves no file (the assert fails).  On success parsing_image goes on to
\* lines 207-211.
Attempt ==
    /\ ipc = "wmf_to_images"
    /\ UNCHANGED <<image, image_path, slept, irest>>
    /\ IF ~endswith_jpg(image_path)
       THEN retry_or_stop(Append(outcomes, "ValueError"))
       ELSE \/ /\ outcomes' = Append(outcomes, "ok")
               /\ UNCHANGED attempt_number
               /\ save_and_return(
                      image, image_path,
                      [files EXCEPT ![image_path] =
                           [kind |-> "converted", blob |-> image.blob]],
                      [nwrites EXCEPT ![image_path] = @ + 1],
                      outcomes')
            \/ \E err \in {"CalledProcessError", "AssertionError"} :
                   retry_or_stop(Append(outcomes, err))

\* wait_fixed(wait) between two attempts.
Wait ==
    /\ ipc = "wait"
    /\ slept' = slept + wait
    /\ attempt_number' = attempt_number + 1
    /\ ipc' = "wmf_to_images"
    /\ UNCHANGED <<files, nwrites, image, image_path, outcomes, history, irest>>

INext == (\E img \in Images : ParsingImage(img)) \/ Attempt \/ Wait

(***************************************************************************)
(* Config (utils.py 346-423)                                               *)
(***************************************************************************)

\* A directory path is its components in order; <<>> is the empty string.
\* Run directories a caller passes, and session ids.
RunDirs == { <<>>, <<"tmp">>, <<"tmp", "images">>, <<"out">> }
Sessions == {"s1", "s2"}

NoPath == <<"None">>
Unset == <<"unset">>

\* os.path.join(path, name) for a relative name.
pjoin(path, name) == Append(path, name)

\* f"./runs/{session_id}"
session_rundir(sid) == <<"runs", sid>>

dexists(ds, path) == path \in ds

\* os.makedirs(path, exist_ok=True): the path and every ancestor of it.
makedirs(path) == {SubSeq(path, 1, k) : k \in 1..Len(path)}

\* shutil.rmtree(path): the path and everything below it goes.
rmtree(ds, path) ==
    {d \in ds : ~(Len(d) >= Len(path) /\ SubSeq(d, 1, Len(path)) = path)}

\* Mutant: only the run directory is created.
set_rundir_dirs_run_only(rundir) == makedirs(rundir)

\* Lines 391-392: the directories set_rundir creates.
set_rundir_dirs(rundir) == makedirs(rundir) \cup makedirs(pjoin(rundir, "images"))

\* makedirs("") raises FileNotFoundError before anything is created.
set_rundir_error(rundir) == IF rundir = <<>> THEN "FileNotFoundError" ELSE "none"

\* set_rundir on the object: lines 388-392.
set_rundir(rundir) ==
    /\ RUN_DIR' = rundir
    /\ IMAGE_DIR' = pjoin(rundir, "images")
    /\ cerror' = set_rundir_error(rundir)
    /\ dirs' = IF set_rundir_error(rundir) = "none"
               THEN dirs \cup set_rundir_dirs(rundir)
               ELSE dirs

CStart ==
    /\ cpc = "none"
    /\ RUN_DIR = Unset
    /\ IMAGE_DIR = Unset
    /\ session_id = "unset"
    /\ DEBUG = "unset"
    /\ dirs = {}
    /\ cop = "none"
    /\ cerror = "none"

\* Config(rundir, session_id): an exception leaves no object behind.
Construct(rundir, sid) ==
    /\ cpc = "none"
    /\ cop' = "__init__"
    /\ UNCHANGED <<DEBUG, crest>>
    /\ IF rundir # NoPath
       THEN /\ cerror' = set_rundir_error(rundir)
            /\ IF set_rundir_error(rundir) = "none"
               THEN /\ set_rundir(rundir)
                    /\ cpc' = "live"
               ELSE UNCHANGED <<RUN_DIR, IMAGE_DIR, dirs, cpc>>
            /\ UNCHANGED session_id
       ELSE IF sid # "None"
       THEN /\ session_id' = sid
            /\ set_rundir(session_rundir(sid))
            /\ cpc' = "live"
       ELSE /\ cerror' = "ValueError"
            /\ UNCHANGED <<RUN_DIR, IMAGE_DIR, session_id, dirs, cpc>>

SetSession(sid) ==
    /\ cpc = "live"
    /\ cop' = "set_session"
    /\ session_id' = sid
    /\ set_rundir(session_rundir(sid))
    /\ UNCHANGED <<cpc, DEBUG, crest>>

SetRundir(rundir) ==
    /\ cpc = "live"
    /\ cop' = "set_rundir"
    /\ set_rundir(rundir)
    /\ UNCHANGED <<cpc, session_id, DEBUG, crest>>

SetDebug(debug) ==
    /\ cpc = "live"
    /\ cop' = "set_debug"
    /\ DEBUG' = debug
    /\ cerror' = "none"
    /\ UNCHANGED <<cpc, RUN_DIR, IMAGE_DIR, session_id, dirs, crest>>

RemoveRundir ==
    /\ cpc = "live"
    /\ cop' = "remove_rundir"
    /\ cerror' = "none"
    /\ LET after_run == IF dexists(dirs, RUN_DIR) THEN rmtree(dirs, RUN_DIR)
                        ELSE dirs
       IN  dirs' = IF dexists(after_run, IMAGE_DIR)
                   THEN rmtree(after_run, IMAGE_DIR)
                   ELSE after_run
    /\ UNCHANGED <<cpc, RUN_DIR, IMAGE_DIR, session_id, DEBUG, crest>>

CNext ==
    \/ \E rundir \in RunDirs \cup {NoPath} : \E sid \in Sessions \cup {"None"} :
           Construct(rundir, sid)
    \/ \E sid \in Sessions : SetSession(sid)
    \/ \E rundir \in RunDirs : SetRundir(rundir)
    \/ \E debug \in {"True", "False"} : SetDebug(debug)
    \/ RemoveRundir

(***************************************************************************)
(* dict_to_object (utils.py 310-329)                                       *)
(***************************************************************************)

\* Most dict_to_object calls on the object in a run of the model.
MaxEdits == 2

\* Attributes of the styled object and the values a dictionary can carry;
\* "None" is Python's None.
Fields == {"bold", "size", "element"}
FieldValues(key) == IF key = "element" THEN {"v1"} ELSE {"v1", "v2", "None"}

\* Dictionaries: any subset of the attributes as keys.
Dicts ==
    UNION {{d \in [K -> {"v1", "v2", "None"}] : \A key \in K : d[key] \in FieldValues(key)}
               : K \in SUBSET Fields}

\* The exclude argument: None (no key excluded) or a caller's set.
Excludes == {{}, {"element"}}

\* Mutant: None values are applied too.
is_applied_with_none(key, value, exclude) == key \notin exclude

\* Line 328: the key is not excluded and the value is not None.
is_applied(key, value, exclude) == key \notin exclude /\ value # "None"

\* The loop of lines 327-329 over the keys still to visit.
RECURSIVE setattr_items(_, _, _, _)
setattr_items(o, dict_obj, keys, exclude) ==
    IF keys = {} THEN o
    ELSE LET key == CHOOSE k \in keys : TRUE
             o2 == IF is_applied(key, dict_obj[key], exclude)
                   THEN [o EXCEPT ![key] = dict_obj[key]]
                   ELSE o
         IN  setattr_items(o2, dict_obj, keys \ {key}, exclude)

dict_to_object(dict_obj, o, exclude) ==
    setattr_items(o, dict_obj, DOMAIN dict_obj, exclude)

obj0 == [key \in Fields |-> "v0"]

SStart ==
    /\ obj = obj0
    /\ applied = <<>>

DictToObject(dict_obj, exclude) ==
    /\ Len(applied) < MaxEdits
    /\ obj' = dict_to_object(dict_obj, obj, exclude)
    /\ applied' = Append(applied, [dict_obj |-> dict_obj, exclude |-> exclude,
                                   obj |-> obj'])
    /\ UNCHANGED srest

SNext == \E dict_obj \in Dicts : \E exclude \in Excludes :
             DictToObject(dict_obj, exclude)

(***************************************************************************)
(* runs_merge (utils.py 97-128)                                            *)
(***************************************************************************)

\* Most content children of a paragraph in the model.
MaxContent == 3

\* A paragraph's content children in document order: runs (a:r), line
\* breaks (a:br, whose text is a vertical tab) and field codes (a:fld).
\* Text is a sequence of characters.
Contents ==
    [kind : {"r", "fld"}, text : {<<>>, <<"a">>, <<"b", "c">>}]
        \cup {[kind |-> "br", text |-> <<"VT">>]}

Paragraphs(n) == UNION {[1..k -> Contents] : k \in 0..n}

\* The positions of the children of one kind, in order.
RECURSIVE positions(_, _, _)
positions(p, kind, k) ==
    IF k > Len(p) THEN <<>>
    ELSE (IF p[k].kind = kind THEN <<k>> ELSE <<>>) \o positions(p, kind, k + 1)

\* paragraph.runs: the a:r children.
paragraph_runs(p) == positions(p, "r", 1)

\* The runs of parse_xml(xml.replace("fld", "r")): with no a:r in the
\* paragraph these are the a:fld children, as elements of a parsed copy.
field_runs(p) == positions(p, "fld", 1)

\* paragraph.text: the text of every content child, joined.
RECURSIVE paragraph_text(_)
paragraph_text(p) ==
    IF Len(p) = 0 THEN <<>> ELSE p[1].text \o paragraph_text(Tail(p))

\* max(runs, key=lambda x: len(x.text)): the first run of the greatest length.
RECURSIVE max_run(_, _)
max_run(p, rs) ==
    IF Len(rs) = 1 THEN rs[1]
    ELSE LET best == max_run(p, SubSeq(rs, 1, Len(rs) - 1))
             last == rs[Len(rs)]
         IN  IF Len(p[last].text) > Len(p[best].text) THEN last ELSE best

\* Lines 125-127: every run of rs but the kept one is removed.
RECURSIVE remove_others(_, _, _, _)
remove_others(p, rs, keep, k) ==
    IF k > Len(p) THEN <<>>
    ELSE (IF (\E j \in DOMAIN rs : rs[j] = k) /\ k # keep THEN <<>> ELSE <<p[k]>>)
             \o remove_others(p, rs, keep, k + 1)

NoRun == [where |-> "None", at |-> 0, text |-> <<>>]

\* The run the call returns: where it lives (the paragraph, or the parsed
\* copy made for field codes), the child it was made from, its text.
runs_merge_result(p) ==
    LET own == paragraph_runs(p)
        rs == IF Len(own) = 0 THEN field_runs(p) ELSE own
        where == IF Len(own) = 0 THEN "copy" ELSE "paragraph"
    IN  IF Len(rs) = 1 THEN [where |-> where, at |-> rs[1], text |-> p[rs[1]].text]
        ELSE IF Len(rs) = 0 THEN NoRun
        ELSE [where |-> where, at |-> max_run(p, rs), text |-> paragraph_text(p)]

\* The paragraph after the call: changed only when it has two runs or more.
runs_merge_paragraph(p) ==
    LET own == paragraph_runs(p)
    IN  IF Len(own) < 2 THEN p
        ELSE LET run == max_run(p, own)
             IN  remove_others([p EXCEPT ![run].text = paragraph_text(p)],
                               own, run, 1)

RStart ==
    /\ paragraph \in Paragraphs(MaxContent)
    /\ paragraph_after = paragraph
    /\ merged = NoRun
    /\ rpc = "ready"

RunsMerge ==
    /\ rpc = "ready"
    /\ merged' = runs_merge_result(paragraph)
    /\ paragraph_after' = runs_merge_paragraph(paragraph)
    /\ rpc' = "done"
    /\ UNCHANGED <<paragraph, rrest>>

RNext == RunsMerge

(***************************************************************************)
(* The round trip of quickstart.py and test_ppt.py.  Presentation lives in *)
(* pptparse/presentation.py; parse and save follow the specification's     *)
(* description of them (sections 3 and 4.4).                               *)
(***************************************************************************)

\* Most slides of a document, most shapes of a slide, in the model.
MaxSlides == 2
MaxShapes == 2

\* Absolute boxes of the raw top-level shapes of a document.
RawBoxes ==
    { [left |-> 0, top |-> 0, width |-> 100, height |-> 50],
      [left |-> 10, top |-> 20, width |-> 0, height |-> 50] }

RawSlides(n) == UNION {[1..k -> RawBoxes] : k \in 0..n}

Documents(m, n) == UNION {[1..k -> RawSlides(n)] : k \in 1..m}

\* A ShapeElement: identity (id, z_order, slide-local) and absolute box.
ShapeElement(slide_idx, shape_idx, raw) ==
    [id |-> shape_idx, z_order |-> shape_idx, slide |-> slide_idx, box |-> raw]

\* parse: the slides in document order, each slide's shapes in order.
from_file(doc) ==
    [slides |-> [i \in DOMAIN doc |->
        [index |-> i,
         shapes |-> [j \in DOMAIN doc[i] |-> ShapeElement(i, j, doc[i][j])],
         closures |-> <<>>]]]

\* asdict: a dataclass becomes a dict, here its set of (key, value) items,
\* with the dataclasses inside it converted as well.
asdict_shape(sh) == {<<key, sh[key]>> : key \in DOMAIN sh}
asdict_slide(sl) ==
    { <<"index", sl.index>>,
      <<"shapes", [j \in DOMAIN sl.shapes |-> asdict_shape(sl.shapes[j])]>>,
      <<"closures", sl.closures>> }
asdict(p) ==
    { <<"slides", [i \in DOMAIN p.slides |-> asdict_slide(p.slides[i])]>> }

\* from_dict: each field of the dataclass is looked up in the dict.
item(d, key) == (CHOOSE kv \in d : kv[1] = key)[2]
from_dict_shape(d) ==
    [id |-> item(d, "id"), z_order |-> item(d, "z_order"),
     slide |-> item(d, "slide"), box |-> item(d, "box")]
from_dict_slide(d) ==
    [index |-> item(d, "index"),
     shapes |-> [j \in DOMAIN item(d, "shapes") |->
                    from_dict_shape(item(d, "shapes")[j])],
     closures |-> item(d, "closures")]
from_dict(d) ==
    [slides |-> [i \in DOMAIN item(d, "slides") |->
                    from_dict_slide(item(d, "slides")[i])]]

\* Mutant: a slide without shapes is not written.
save_layout_only_skipping_empty(p) ==
    LET keep == SelectSeq(p.slides, LAMBDA sl : Len(sl.shapes) > 0)
    IN  [i \in DOMAIN keep |->
            [j \in DOMAIN keep[i].shapes |-> keep[i].shapes[j].box]]

\* save(layout_only=True) with no closures: one slide per slide of the
\* model, each shape's geometry written in z-order.
save_layout_only(p) ==
    [i \in DOMAIN p.slides |->
        [z \in DOMAIN p.slides[i].shapes |->
            (CHOOSE sh \in {p.slides[i].shapes[j] : j \in DOMAIN p.slides[i].shapes} :
                 sh.z_order = z).box]]

NoPresentation == [slides |-> <<>>]

TStart ==
    /\ document \in Documents(MaxSlides, MaxShapes)
    /\ prs = NoPresentation
    /\ prs_attrs = {}
    /\ restored = NoPresentation
    /\ output = <<>>
    /\ reloaded = <<>>
    /\ tpc = "source"

Parse ==
    /\ tpc = "source"
    /\ prs' = from_file(document)
    /\ tpc' = "parsed"
    /\ UNCHANGED <<document, prs_attrs, restored, output, reloaded, trest>>

AsDict ==
    /\ tpc = "parsed"
    /\ prs_attrs' = asdict(prs)
    /\ tpc' = "dict"
    /\ UNCHANGED <<document, prs, restored, output, reloaded, trest>>

FromDict ==
    /\ tpc = "dict"
    /\ restored' = from_dict(prs_attrs)
    /\ tpc' = "restored"
    /\ UNCHANGED <<document, prs, prs_attrs, output, reloaded, trest>>

Save ==
    /\ tpc = "restored"
    /\ output' = save_layout_only(restored)
    /\ tpc' = "saved"
    /\ UNCHANGED <<document, prs, prs_attrs, restored, reloaded, trest>>

Reload ==
    /\ tpc = "saved"
    /\ reloaded' = output
    /\ tpc' = "reloaded"
    /\ UNCHANGED <<document, prs, prs_attrs, restored, output, trest>>

TNext == Parse \/ AsDict \/ FromDict \/ Save \/ Reload

(***************************************************************************)
(* Specifications: one unit runs, the others stay idle.                    *)
(***************************************************************************)

GIdle ==
    /\ groupshape = [left |-> 0, top |-> 0, width |-> 0, height |-> 0,
                     shapes |-> <<>>]
    /\ group_shape_xy = <<>>
    /\ gerror = "none"
    /\ gpc = "idle"

IIdle == IStart

CIdle == CStart

SIdle == SStart

RIdle ==
    /\ paragraph = <<>>
    /\ paragraph_after = <<>>
    /\ merged = NoRun
    /\ rpc = "idle"

TIdle ==
    /\ document = <<>>
    /\ prs = NoPresentation
    /\ prs_attrs = {}
    /\ restored = NoPresentation
    /\ output = <<>>
    /\ reloaded = <<>>
    /\ tpc = "idle"

GInit == GStart /\ IIdle /\ CIdle /\ SIdle /\ RIdle /\ TIdle

SpecGroup == GInit /\ [][GNext]_vars

IInit == IStart /\ GIdle /\ CIdle /\ SIdle /\ RIdle /\ TIdle

SpecImage == IInit /\ [][INext]_vars

CInit == CStart /\ GIdle /\ IIdle /\ SIdle /\ RIdle /\ TIdle

SInit == SStart /\ GIdle /\ IIdle /\ CIdle /\ RIdle /\ TIdle

SpecStyle == SInit /\ [][SNext]_vars

RInit == RStart /\ GIdle /\ IIdle /\ CIdle /\ SIdle /\ TIdle

SpecRuns == RInit /\ [][RNext]_vars

TInit == TStart /\ GIdle /\ IIdle /\ CIdle /\ SIdle /\ RIdle

SpecRoundTrip == TInit /\ [][TNext]_vars

SpecConfig == CInit /\ [][CNext]_vars

\* An attempt that is due is made and a wait ends: the code is sequential.
SpecImageFair == SpecImage /\ WF_vars(Attempt) /\ WF_vars(Wait)


(***************************************************************************)
(* Claims about parse_groupshape                                           *)
(***************************************************************************)

\* The tight union of the children's local boxes: the least left and top,
\* the greatest right and bottom.
G_local(g) ==
    LET I == DOMAIN g.shapes
        l == CHOOSE x \in {g.shapes[i].left : i \in I} :
                 \A i \in I : g.shapes[i].left >= x
        t == CHOOSE y \in {g.shapes[i].top : i \in I} :
                 \A i \in I : g.shapes[i].top >= y
        r == CHOOSE x \in {g.shapes[i].left + g.shapes[i].width : i \in I} :
                 \A i \in I : g.shapes[i].left + g.shapes[i].width <= x
        d == CHOOSE y \in {g.shapes[i].top + g.shapes[i].height : i \in I} :
                 \A i \in I : g.shapes[i].top + g.shapes[i].height <= y
    IN  [left |-> l, top |-> t, width |-> r - l, height |-> d - t]

NonDegenerate(g) ==
    /\ Len(g.shapes) >= 1
    /\ G_local(g).width # 0
    /\ G_local(g).height # 0

Degenerate(g) ==
    /\ Len(g.shapes) >= 1
    /\ (G_local(g).width = 0 \/ G_local(g).height = 0)

\* v is the value num/den (den > 0) with its fraction dropped.
IsTruncated(v, num, den) ==
    /\ num >= 0 => (v * den <= num /\ num < (v + 1) * den)
    /\ num < 0 => ((v - 1) * den < num /\ num <= v * den)

\* The spec formula's four values for child c, each as a fraction num/den.
FormulaLeftNum(g, c) ==
    (c.left - G_local(g).left) * g.width + g.left * G_local(g).width
FormulaTopNum(g, c) ==
    (c.top - G_local(g).top) * g.height + g.top * G_local(g).height
FormulaWidthNum(g, c) == c.width * g.width
FormulaHeightNum(g, c) == c.height * g.height

ExampleGroup ==
    [left |-> 10, top |-> 10, width |-> 400, height |-> 100,
     shapes |-> << [left |-> 0, top |-> 0, width |-> 100, height |-> 50],
                   [left |-> 100, top |-> 0, width |-> 100, height |-> 50] >>]

ExampleBounds ==
    << [left |-> 10, top |-> 10, width |-> 200, height |-> 100],
       [left |-> 210, top |-> 10, width |-> 200, height |-> 100] >>

\* C1 as amended: for a group with at least one child and a non-degenerate
\* tight union, parse_groupshape returns one box per child, in child order,
\* and each coordinate is the spec formula's value truncated toward zero to
\* an integer Length; the spec's example yields {10,10,200,100} and
\* {210,10,200,100}.
C1_BoxesAreTruncatedFormula ==
    (gpc = "done" /\ NonDegenerate(groupshape)) =>
        /\ gerror = "none"
        /\ Len(group_shape_xy) = Len(groupshape.shapes)
        /\ \A i \in DOMAIN groupshape.shapes :
             LET c == groupshape.shapes[i]
                 b == group_shape_xy[i]
                 u == G_local(groupshape)
             IN  /\ IsTruncated(b.left, FormulaLeftNum(groupshape, c), u.width)
                 /\ IsTruncated(b.top, FormulaTopNum(groupshape, c), u.height)
                 /\ IsTruncated(b.width, FormulaWidthNum(groupshape, c), u.width)
                 /\ IsTruncated(b.height, FormulaHeightNum(groupshape, c), u.height)
        /\ groupshape = ExampleGroup => group_shape_xy = ExampleBounds

\* C1 as claimed: each returned coordinate equals the spec formula's value
\* exactly.
C1_BoxesEqualFormula ==
    (gpc = "done" /\ NonDegenerate(groupshape)) =>
        /\ Len(group_shape_xy) = Len(groupshape.shapes)
        /\ \A i \in DOMAIN groupshape.shapes :
             LET c == groupshape.shapes[i]
                 b == group_shape_xy[i]
                 u == G_local(groupshape)
             IN  /\ b.left * u.width = FormulaLeftNum(groupshape, c)
                 /\ b.top * u.height = FormulaTopNum(groupshape, c)
                 /\ b.width * u.width = FormulaWidthNum(groupshape, c)
                 /\ b.height * u.height = FormulaHeightNum(groupshape, c)

\* A two-child group whose projection leaves a fraction to drop.
C1_Witness ==
    /\ gpc = "done"
    /\ NonDegenerate(groupshape)
    /\ Len(group_shape_xy) = 2
    /\ group_shape_xy[2].left * G_local(groupshape).width
           # FormulaLeftNum(groupshape, groupshape.shapes[2])

\* C2: when the tight union of the children has zero width or zero height,
\* parse_groupshape fails with DegenerateGroupGeometry, without dividing by
\* zero, and returns no boxes.
C2_DegenerateRaisesDegenerateGroupGeometry ==
    (gpc = "done" /\ Degenerate(groupshape)) =>
        /\ gerror = "DegenerateGroupGeometry"
        /\ group_shape_xy = <<>>

\* C3: for a non-degenerate group the bounding union of the returned boxes
\* is the group's own frame up to one unit of rounding per coordinate, and
\* every returned box lies inside the frame with width >= 0 and height >= 0.
C3_UnionReproducesGroupFrame ==
    (gpc = "done" /\ NonDegenerate(groupshape)) =>
        LET g == groupshape
            B == {group_shape_xy[i] : i \in DOMAIN group_shape_xy}
        IN  /\ B # {}
            /\ \E b \in B : b.left = g.left
            /\ \E b \in B : b.top = g.top
            /\ \E b \in B : b.left + b.width \in {g.left + g.width - 1, g.left + g.width}
            /\ \E b \in B : b.top + b.height \in {g.top + g.height - 1, g.top + g.height}
            /\ \A b \in B :
                 /\ b.width >= 0 /\ b.height >= 0
                 /\ b.left >= g.left /\ b.top >= g.top
                 /\ b.left + b.width <= g.left + g.width
                 /\ b.top + b.height <= g.top + g.height

\* A group whose returned union falls one unit short of the frame's right.
C3_Witness ==
    /\ gpc = "done"
    /\ NonDegenerate(groupshape)
    /\ Len(group_shape_xy) = 2
    /\ \A i \in DOMAIN group_shape_xy :
         group_shape_xy[i].left + group_shape_xy[i].width
             < groupshape.left + groupshape.width

(***************************************************************************)
(* Claims about parsing_image and wmf_to_images                            *)
(***************************************************************************)

Calls == DOMAIN history

\* The key of an image: its path, with a.wmf kept as a.jpg for a wmf image.
KeyOf(img) ==
    IF img.ext = "wmf" /\ img.path = <<"a", ".wmf">> THEN <<"a", ".jpg">>
    ELSE img.path

\* C4: media extraction is idempotent.  Once a call for an image has
\* returned, every later call with that image returns the same path, writes
\* nothing and runs no converter; the returned key names an existing file
\* that was created exactly once, and no file is ever written twice.  The
\* key of a wmf image is its path with .wmf replaced by .jpg.
C4_ExtractionIdempotent ==
    /\ \A q \in Paths : nwrites[q] <= 1
    /\ \A k \in Calls :
         history[k].kind = "returned" =>
             /\ history[k].value = KeyOf(history[k].image)
             /\ pexists(files, history[k].value)
             /\ nwrites[history[k].value] = 1
    /\ \A j \in Calls : \A k \in Calls :
         (j < k /\ history[j].image = history[k].image
                /\ history[j].kind = "returned") =>
             /\ history[k].kind = "returned"
             /\ history[k].value = history[j].value
             /\ history[k].wrote = FALSE
             /\ history[k].conversions = 0
             /\ history[k].attempts = 0

\* A wmf image converted by the first call and asked for again.
C4_Witness ==
    /\ Len(history) >= 2
    /\ history[1].image.ext = "wmf"
    /\ history[1].kind = "returned"
    /\ history[1].conversions >= 1
    /\ history[2].image = history[1].image
    /\ history[2].kind = "returned"

C9_OnlyWmfIsConverted ==
    \A k \in Calls :
        LET h == history[k]
        IN  /\ h.image.ext \in IMAGE_EXTENSIONS =>
                /\ h.kind = "returned" /\ h.value = h.image.path
                /\ h.conversions = 0
                /\ h.wrote =>
                       files[h.value] = [kind |-> "raw", blob |-> h.image.blob]
            /\ h.image.ext = "wmf" =>
                /\ h.wrote = FALSE
                /\ h.kind = "returned" =>
                       /\ is_image_path(h.value)
                       /\ h.conversions >= 1
                              \/ \E j \in Calls : j < k /\ history[j].value = h.value
                                                        /\ history[j].kind = "returned"
                /\ h.kind = "raised" =>
                       h.error = "RetryError" /\ h.attempts = stop
            /\ h.image.ext \notin IMAGE_EXTENSIONS \cup {"wmf"} =>
                /\ h.kind = "raised" /\ h.error = "ValueError"
                /\ h.conversions = 0 /\ h.wrote = FALSE

\* C9 as claimed: for every encoding outside the supported set the
\* converter is invoked (unless the copy is already there) and a returned
\* path is that of a supported-format copy, the call failing only when the
\* converter does; a supported encoding is written as is, not converted.
C9_EveryUnsupportedIsConverted ==
    \A k \in Calls :
        LET h == history[k]
        IN  /\ h.image.ext \notin IMAGE_EXTENSIONS =>
                /\ h.attempts >= 1
                       \/ \E j \in Calls : j < k /\ history[j].value = h.value
                                                 /\ history[j].kind = "returned"
                /\ h.kind = "returned" => is_image_path(h.value)
                /\ h.kind = "raised" => h.error = "RetryError"
            /\ h.image.ext \in IMAGE_EXTENSIONS =>
                /\ h.kind = "returned" /\ h.value = h.image.path
                /\ h.conversions = 0

\* A wmf image was converted, an emf image was refused, a png was saved.
C9_Witness ==
    /\ \E k \in Calls : /\ history[k].image.ext = "wmf"
                        /\ history[k].kind = "returned"
                        /\ history[k].conversions >= 1
    /\ \E k \in Calls : /\ history[k].image.ext = "emf"
                        /\ history[k].kind = "raised"
    /\ \E k \in Calls : /\ history[k].image.ext = "png"
                        /\ history[k].wrote

(***************************************************************************)
(* Claims about Config                                                     *)
(***************************************************************************)

\* C6 as amended: IMAGE_DIR is RUN_DIR joined with "images" for the whole
\* lifetime of a Config; both directories exist after construction and
\* after every set_rundir or set_session that returns; set_debug changes
\* neither the paths nor the disk; after remove_rundir neither directory
\* exists.
C6_DirsExistUntilRemoved ==
    /\ [](cpc = "live" =>
            /\ IMAGE_DIR = RUN_DIR \o <<"images">>
            /\ (cop \in {"__init__", "set_rundir", "set_session"}
                    /\ cerror = "none") =>
                   (RUN_DIR \in dirs /\ IMAGE_DIR \in dirs)
            /\ cop = "remove_rundir" =>
                   (RUN_DIR \notin dirs /\ IMAGE_DIR \notin dirs))
    /\ [][cop' = "set_debug" => UNCHANGED <<RUN_DIR, IMAGE_DIR, dirs>>]_vars

\* C6 as claimed: after construction and after any sequence of set_rundir,
\* set_session, set_debug and remove_rundir, IMAGE_DIR is RUN_DIR/images
\* and both directories exist.
C6_DirsAlwaysExist ==
    (cpc = "live" /\ cerror = "none") =>
        /\ IMAGE_DIR = RUN_DIR \o <<"images">>
        /\ RUN_DIR \in dirs
        /\ IMAGE_DIR \in dirs

\* remove_rundir ran on a Config whose directories existed, set_debug after.
C6_Witness ==
    /\ cpc = "live"
    /\ cop = "set_debug"
    /\ RUN_DIR = <<"tmp">>
    /\ <<"tmp">> \notin dirs
    /\ <<"runs", "s1", "images">> \in dirs

(***************************************************************************)
(* Claims about dict_to_object                                             *)
(***************************************************************************)

\* The call sets the field: the key is present, not excluded, not None.
Sets(call, key) ==
    /\ key \in DOMAIN call.dict_obj
    /\ key \notin call.exclude
    /\ call.dict_obj[key] # "None"

\* The object before the k-th call.
Before(k) == IF k = 1 THEN obj0 ELSE applied[k - 1].obj

\* C7: style edits merge field by field.  After two dict_to_object calls in
\* a row a field set by neither keeps its value, a field set by exactly one
\* has that dictionary's value, a field set by both has the later one's;
\* applying the same dictionary twice is the same as applying it once.
C7_FieldwiseMerge ==
    \A k \in DOMAIN applied :
        k >= 2 =>
            LET first == applied[k - 1]
                second == applied[k]
            IN  /\ \A key \in Fields :
                     second.obj[key] =
                         IF Sets(second, key) THEN second.dict_obj[key]
                         ELSE IF Sets(first, key) THEN first.dict_obj[key]
                         ELSE Before(k - 1)[key]
                /\ (first.dict_obj = second.dict_obj
                        /\ first.exclude = second.exclude) =>
                       second.obj = first.obj

\* Two edits: one field set by both, one by the first only, one by neither
\* (present but None in the second).
C7_Witness ==
    /\ Len(applied) = 2
    /\ Sets(applied[1], "bold") /\ Sets(applied[2], "bold")
    /\ applied[1].dict_obj["bold"] # applied[2].dict_obj["bold"]
    /\ Sets(applied[1], "size")
    /\ "size" \in DOMAIN applied[2].dict_obj /\ ~Sets(applied[2], "size")
    /\ "element" \in DOMAIN applied[1].dict_obj /\ ~Sets(applied[1], "element")
    /\ ~Sets(applied[2], "element")

(***************************************************************************)
(* Claims about runs_merge                                                 *)
(***************************************************************************)

RunsOf(p) == {k \in DOMAIN p : p[k].kind = "r"}

\* The text of the children from position k on, one after the other.
RECURSIVE TextFrom(_, _)
TextFrom(p, k) == IF k > Len(p) THEN <<>> ELSE p[k].text \o TextFrom(p, k + 1)

\* With two runs or more the paragraph ends with exactly one run.
C10_OneRunLeft ==
    (rpc = "done" /\ Cardinality(RunsOf(paragraph)) >= 2) =>
        Cardinality(RunsOf(paragraph_after)) = 1

\* With two runs or more the returned run is the paragraph's remaining run,
\* made from the first run of maximal text length, and its text is the
\* paragraph's full text before the call.
C10_ReturnedRun ==
    (rpc = "done" /\ Cardinality(RunsOf(paragraph)) >= 2) =>
        /\ merged.where = "paragraph"
        /\ merged.at \in RunsOf(paragraph)
        /\ \A k \in RunsOf(paragraph) :
             /\ Len(paragraph[k].text) <= Len(paragraph[merged.at].text)
             /\ k < merged.at =>
                    Len(paragraph[k].text) < Len(paragraph[merged.at].text)
        /\ merged.text = TextFrom(paragraph, 1)
        /\ \E k \in RunsOf(paragraph_after) : paragraph_after[k].text = merged.text

\* With two runs or more the paragraph's text is unchanged by the call.
C10_TextUnchanged ==
    (rpc = "done" /\ Cardinality(RunsOf(paragraph)) >= 2) =>
        TextFrom(paragraph_after, 1) = TextFrom(paragraph, 1)

\* With exactly one run that run is returned and nothing is modified.
C10_SingleRun ==
    (rpc = "done" /\ Cardinality(RunsOf(paragraph)) = 1) =>
        /\ merged.where = "paragraph"
        /\ merged.at \in RunsOf(paragraph)
        /\ merged.text = paragraph[merged.at].text
        /\ paragraph_after = paragraph

\* None is returned only when the paragraph has neither runs nor field codes.
C10_NoneOnlyWithoutRuns ==
    (rpc = "done" /\ merged.where = "None") =>
        \A k \in DOMAIN paragraph : paragraph[k].kind \notin {"r", "fld"}

\* C10: runs_merge merges all runs of a paragraph into a single run: with
\* two runs or more the paragraph is left with exactly one run, the returned
\* one, made from the first run of maximal text length, whose text is the
\* paragraph's full text before the call, so that the paragraph's text is
\* unchanged; a single run is returned with nothing modified; None is
\* returned only when there are no runs and no field-code runs.
C10_RunsMergedIntoOne ==
    /\ C10_OneRunLeft
    /\ C10_ReturnedRun
    /\ C10_TextUnchanged
    /\ C10_SingleRun
    /\ C10_NoneOnlyWithoutRuns

(***************************************************************************)
(* Claims about the round trip                                             *)
(***************************************************************************)

====
